---- MODULE Spec2Model ----
(***************************************************************************)
(* A model of the ic_fs event-stream store: a block-addressed append-only  *)
(* log kept in a flat byte memory that is reached only through a           *)
(* write(offset, bytes) and a read(offset, buf) primitive.                 *)
(*                                                                         *)
(* The memory is modelled byte by byte.  Every engine operation is split   *)
(* at its primitive writes, so that a crash can fall between any two of    *)
(* them.  Values are encoded as bincode encodes them (fixed-width          *)
(* little-endian integers, byte strings prefixed by a u64 length).         *)
(***************************************************************************)
EXTENDS Integers, Sequences, FiniteSets, TLC

(***************************************************************************)
(* Bounds of the model.                                                    *)
(***************************************************************************)
\* Data blocks the host memory provides past IDX_ZONE_END.
MemBlocks == 3
\* write_topic_message and stable_store calls that reach their first
\* primitive write, over the life of the memory.
MaxCalls == 2
\* The largest identifier a reader asks for.
MaxReadId == 2
\* The largest count a range read asks for.
MaxTake == 2
\* The largest byte length get_block_count is asked about, the test's 5170
\* apart.
MaxDataSize == 1100

(***************************************************************************)
(* Layout constants (crate::constants).  The block size and the header     *)
(* area's size are pinned by the tests; the zone origins are a small       *)
(* layout with the same order of zones.                                    *)
(***************************************************************************)
TOPIC_HEADER_MAGIC == 123246369
MAGIC_NUMBER_IDX == 0
TOPIC_HEIGHT_IDX == 8
TOPIC_BLOCK_SIZE_IDX == 16
TOPIC_BLOCK_DATA_START_IDX == 24
TOPIC_BLOCK_MAX_SIZE == 512
FREE_MEMORY_BLOCK_SIZE_IDX == 536
FREE_MEMORY_BLOCK_START_IDX == 544
FREE_MEMORY_BLOCK_SIZE == 16
IDX_ZONE_IDX == 560
IDX_BLOCK_SIZE == 40
IDX_ZONE_END == 880
BLOCK_SIZE == 512

\* Bytes the read path's index buffer holds: [0u8; 32].
IDX_READ_BUF == 32
\* binary_version of a header built by get_or_create.
BINARY_VERSION == 1000000

\* The host memory of the tests: IDX_ZONE_END bytes and room for data.
MEM_SIZE == IDX_ZONE_END + MemBlocks * BLOCK_SIZE

(***************************************************************************)
(* Bytes and fixed-width little-endian integers.                           *)
(***************************************************************************)
Byte == 0..255

\* A u64 too large for the model's integers decodes to this value; every
\* comparison the code makes with it (a length against a buffer, an offset
\* against the memory) has the outcome the true value would give.
U64_HUGE == 2^31 - 1

Fill(n, b) == [i \in 1..n |-> b]

Pow256(k) == CASE k = 0 -> 1 [] k = 1 -> 256 [] k = 2 -> 65536 [] OTHER -> 16777216

\* n.to_le_bytes() for an integer of w bytes, 0 <= n < 2^31.
ToLeBytes(n, w) == [i \in 1..w |-> IF i <= 4 THEN (n \div Pow256(i - 1)) % 256 ELSE 0]

\* u64::from_le_bytes / u32::from_le_bytes of a sequence of w bytes.
FromLeBytes(bs) ==
    IF \/ \E i \in 5..Len(bs) : bs[i] # 0
       \/ (Len(bs) >= 4 /\ bs[4] >= 128)
    THEN U64_HUGE
    ELSE LET B(i) == IF i <= Len(bs) THEN bs[i] ELSE 0
         IN B(1) + 256 * B(2) + 65536 * B(3) + 16777216 * B(4)

(***************************************************************************)
(* The memory primitives, as the tests provide them over one byte vector.  *)
(* The vector is kept in pages (a representation only: every operator      *)
(* below addresses it by byte offset).                                     *)
(***************************************************************************)
PAGE == BLOCK_SIZE \div 8
NPages == (MEM_SIZE + PAGE - 1) \div PAGE

ZeroMemory == [p \in 0..(NPages - 1) |-> [i \in 0..(PAGE - 1) |-> 0]]

ByteAt(m, a) == m[a \div PAGE][a % PAGE]

\* Whether [off, off+len) lies in the memory.
InMemory(off, len) == off <= MEM_SIZE /\ len <= MEM_SIZE /\ off + len <= MEM_SIZE

\* write(off, bs): the bytes are stored in order; the first byte that falls
\* outside the vector panics, the ones before it having been stored.
WriteBytes(m, off, bs) ==
    LET end == IF off + Len(bs) <= MEM_SIZE THEN off + Len(bs) ELSE MEM_SIZE
    IN [p \in DOMAIN m |->
          IF (p + 1) * PAGE <= off \/ p * PAGE >= end THEN m[p]
          ELSE [i \in 0..(PAGE - 1) |->
                  LET a == p * PAGE + i
                  IN IF a >= off /\ a < end THEN bs[a - off + 1] ELSE m[p][i]]]

\* read(off, buf) into a buffer of len bytes that lies in the memory.
ReadBytes(m, off, len) == [i \in 1..len |-> ByteAt(m, off + i - 1)]

ReadU64(m, off) == FromLeBytes(ReadBytes(m, off, 8))

(***************************************************************************)
(* Results: Ok(v), an error returned to the caller, or a panic.            *)
(***************************************************************************)
Ok(v) == [ok |-> TRUE, val |-> v]
Err(e) == [ok |-> FALSE, err |-> e]
Panicked == Err("panic")
IsPanic(r) == ~r.ok /\ r.err = "panic"

(***************************************************************************)
(* The codec: bincode with fixed-width integers, trailing bytes allowed.   *)
(***************************************************************************)
\* The values a host appends or stores: the unit value (no bytes), a byte
\* string (String, Vec<u8>), and a value whose Serialize fails.
Unit == [kind |-> "unit"]
Bytes(d) == [kind |-> "bytes", data |-> d]
Unserializable == [kind |-> "unserializable"]

\* bincode::serialize(value)
Serialize(v) ==
    CASE v.kind = "unit" -> Ok(<<>>)
      [] v.kind = "bytes" -> Ok(ToLeBytes(Len(v.data), 8) \o v.data)
      [] OTHER -> Err("Failed to serialize")

\* bincode::deserialize::<T>(bs) for T the unit type or a byte string
Deserialize(ty, bs) ==
    IF ty = "unit" THEN Ok(Unit)
    ELSE IF Len(bs) < 8 THEN Err("Failed to deserialize")
    ELSE LET n == FromLeBytes(SubSeq(bs, 1, 8))
         IN IF n > Len(bs) - 8 THEN Err("Failed to deserialize")
            ELSE Ok(Bytes(SubSeq(bs, 9, 8 + n)))

\* bincode::serialize(&IndexBlock): five u64 fields in declaration order
SerializeIndexBlock(idx) ==
    ToLeBytes(idx.height, 8) \o ToLeBytes(idx.data_size, 8) \o ToLeBytes(idx.start_idx, 8)
        \o ToLeBytes(idx.end_idx, 8) \o ToLeBytes(idx.timestamp, 8)

\* Bytes an encoded IndexBlock takes.
INDEX_BLOCK_BYTES == 40

\* bincode::deserialize::<IndexBlock>(bs)
DeserializeIndexBlock(bs) ==
    IF Len(bs) < INDEX_BLOCK_BYTES THEN Err("Failed to deserialize")
    ELSE Ok([height |-> FromLeBytes(SubSeq(bs, 1, 8)),
             data_size |-> FromLeBytes(SubSeq(bs, 9, 16)),
             start_idx |-> FromLeBytes(SubSeq(bs, 17, 24)),
             end_idx |-> FromLeBytes(SubSeq(bs, 25, 32)),
             timestamp |-> FromLeBytes(SubSeq(bs, 33, 40))])

\* bincode::serialize(&TopicHeaderBlock): String, u64, u32
SerializeTopicHeaderBlock(hd) ==
    ToLeBytes(Len(hd.event_stream_name), 8) \o hd.event_stream_name
        \o ToLeBytes(hd.first_message_ptr, 8) \o ToLeBytes(hd.binary_version, 4)

\* bincode::deserialize::<TopicHeaderBlock>(bs); a name is ASCII text
DeserializeTopicHeaderBlock(bs) ==
    IF Len(bs) < 8 THEN Err("Failed to deserialize")
    ELSE LET n == FromLeBytes(SubSeq(bs, 1, 8))
         IN IF n > Len(bs) - 8 \/ Len(bs) - 8 - n < 12 THEN Err("Failed to deserialize")
            ELSE IF \E i \in 9..(8 + n) : bs[i] >= 128 THEN Err("Failed to deserialize")
            ELSE Ok([event_stream_name |-> SubSeq(bs, 9, 8 + n),
                     first_message_ptr |-> FromLeBytes(SubSeq(bs, 9 + n, 16 + n)),
                     binary_version |-> FromLeBytes(SubSeq(bs, 17 + n, 20 + n))])

(***************************************************************************)
(* Pure functions of the writer, the reader and the engine.                *)
(***************************************************************************)
\* get_block_count never giving less than one block.
get_block_count_AtLeastOne(data_size) ==
    IF data_size = 0 THEN 1
    ELSE (data_size \div BLOCK_SIZE) + (IF data_size % BLOCK_SIZE # 0 THEN 1 ELSE 0)

\* get_block_count adding a block without looking at the remainder.
get_block_count_AlwaysExtra(data_size) == (data_size \div BLOCK_SIZE) + 1

\* get_block_count rounding down instead of up.
get_block_count_Floor(data_size) == data_size \div BLOCK_SIZE

get_block_count(data_size) ==
    (data_size \div BLOCK_SIZE) + (IF data_size % BLOCK_SIZE # 0 THEN 1 ELSE 0)

get_data_offset_from_height(height) == IDX_ZONE_END + (height * BLOCK_SIZE)

read_block_height(m) == ReadU64(m, TOPIC_HEIGHT_IDX)

is_magic_number_valid(m) == ReadU64(m, MAGIC_NUMBER_IDX) = TOPIC_HEADER_MAGIC

\* read_topic_block: the size slot, then that many bytes, then unwrap()
read_topic_block(m) ==
    LET topic_block_size == ReadU64(m, TOPIC_BLOCK_SIZE_IDX)
    IN IF ~InMemory(TOPIC_BLOCK_DATA_START_IDX, topic_block_size) THEN Panicked
       ELSE LET r == DeserializeTopicHeaderBlock(
                        ReadBytes(m, TOPIC_BLOCK_DATA_START_IDX, topic_block_size))
            IN IF r.ok THEN r ELSE Panicked

\* read_idx with a buffer of the record's whole encoded size.
read_idx_WholeRecord(m, offset) ==
    LET at == IDX_ZONE_IDX + (IDX_BLOCK_SIZE * offset)
    IN IF ~InMemory(at, INDEX_BLOCK_BYTES) THEN Panicked
       ELSE DeserializeIndexBlock(ReadBytes(m, at, INDEX_BLOCK_BYTES))

\* MemoryReader::read_idx
read_idx(m, offset) ==
    LET at == IDX_ZONE_IDX + (IDX_BLOCK_SIZE * offset)
    IN IF ~InMemory(at, IDX_READ_BUF) THEN Panicked
       ELSE DeserializeIndexBlock(ReadBytes(m, at, IDX_READ_BUF))

\* MemoryReader::read_topic_message
read_topic_message(m, height, ty) ==
    LET idx == read_idx(m, height)
    IN IF ~idx.ok THEN idx
       ELSE IF idx.val.start_idx >= MEM_SIZE THEN Panicked
       ELSE LET read_start == get_data_offset_from_height(idx.val.start_idx)
            IN IF ~InMemory(read_start, idx.val.data_size) THEN Panicked
               ELSE Deserialize(ty, ReadBytes(m, read_start, idx.val.data_size))

\* read_range giving back what it has read when a read fails.
RECURSIVE read_range_PartialLoop(_, _, _, _, _)
read_range_PartialLoop(m, i, end, ty, messages) ==
    IF i >= end THEN Ok(messages)
    ELSE LET msg == read_topic_message(m, i, ty)
         IN IF msg.ok
            THEN read_range_PartialLoop(m, i + 1, end, ty, Append(messages, msg.val))
            ELSE Ok(messages)

read_range_Partial(m, start, count, ty) ==
    read_range_PartialLoop(m, start, start + count, ty, <<>>)

\* The loop of read_range: for i in start..start + count.
RECURSIVE read_range_loop(_, _, _, _, _)
read_range_loop(m, i, end, ty, messages) ==
    IF i >= end THEN Ok(messages)
    ELSE LET msg == read_topic_message(m, i, ty)
         IN IF msg.ok
            THEN read_range_loop(m, i + 1, end, ty, Append(messages, msg.val))
            ELSE msg

\* MemoryReader::read_range.
read_range(m, start, count, ty) == read_range_loop(m, start, start + count, ty, <<>>)

\* EventFilesystem::stable_restore
\* stable_restore reading the whole slot, whatever the size field says.
stable_restore_WholeSlot(m, ty) ==
    Deserialize(ty, ReadBytes(m, FREE_MEMORY_BLOCK_START_IDX, FREE_MEMORY_BLOCK_SIZE))

stable_restore(m, ty) ==
    LET size == ReadU64(m, FREE_MEMORY_BLOCK_SIZE_IDX)
    IN IF ~InMemory(FREE_MEMORY_BLOCK_START_IDX, size) THEN Panicked
       ELSE Deserialize(ty, ReadBytes(m, FREE_MEMORY_BLOCK_START_IDX, size))

\* EventFilesystem::get_file_system: the engine it returns, or the panic of
\* read_topic_block's unwrap
NoEngine == [st |-> "none"]
\* get_file_system starting the cursor at 0 instead of the persisted height.
get_file_system_CursorZero(m) ==
    LET topic_header == read_topic_block(m)
    IN IF ~topic_header.ok THEN Panicked
       ELSE Ok([st |-> "ready", block_offset |-> 0, topic_header |-> topic_header.val])

get_file_system(m) ==
    LET height == read_block_height(m)
        topic_header == read_topic_block(m)
    IN IF ~topic_header.ok THEN Panicked
       ELSE Ok([st |-> "ready", block_offset |-> height, topic_header |-> topic_header.val])

(***************************************************************************)
(* Primitive writes of the engine.                                         *)
(***************************************************************************)
write_magic_number(m) == WriteBytes(m, 0, ToLeBytes(TOPIC_HEADER_MAGIC, 8))

write_block_height(m, height) == WriteBytes(m, TOPIC_HEIGHT_IDX, ToLeBytes(height, 8))

\* The slot's offset without the index zone's origin.
IdxOffset_NoOrigin(block_offset) == block_offset * IDX_BLOCK_SIZE

\* Offset of the index record of the append that starts at block_offset.
IdxOffset(block_offset) == IDX_ZONE_IDX + (block_offset * IDX_BLOCK_SIZE)

\* Offset of the payload of the append that starts at block_offset.
DataOffset(block_offset) == IDX_ZONE_END + (block_offset * BLOCK_SIZE)

\* The header get_or_create builds for a fresh store.
\* The header built with an empty name instead of the name supplied.
NewTopicBlock_NoName(event_stream_name) ==
    [event_stream_name |-> <<>>,
     first_message_ptr |-> 0,
     binary_version |-> BINARY_VERSION]

NewTopicBlock(event_stream_name) ==
    [event_stream_name |-> event_stream_name,
     first_message_ptr |-> 0,
     binary_version |-> BINARY_VERSION]

\* stable_store's size test: the blob is refused when it is longer than the slot
\* The size test of stable_store refusing a blob of exactly the slot's size.
StoreTooLarge_AtCapacity(len) == len >= FREE_MEMORY_BLOCK_SIZE

StoreTooLarge(len) == len > FREE_MEMORY_BLOCK_SIZE

(***************************************************************************)
(* The inputs the hosts of the model use.                                  *)
(***************************************************************************)
\* Stream names: "t", "u", and one whose header is a byte too long.
LongName == Fill(TOPIC_BLOCK_MAX_SIZE - 19, 120)
Names == {<<116>>, LongName}

\* Appended values: no bytes, one block, two blocks, and one that fails to encode.
SmallValue == Bytes(<<7>>)
BigValue == Bytes(Fill(BLOCK_SIZE, 12))
AppendValues == {Unit, SmallValue, BigValue, Unserializable}

\* Snapshots: 9 bytes, exactly the slot's 16, one more than the slot.
ShortBlob == Bytes(<<1>>)
FullBlob == Bytes(Fill(FREE_MEMORY_BLOCK_SIZE - 8, 2))
OverBlob == Bytes(Fill(FREE_MEMORY_BLOCK_SIZE - 7, 3))
StoreValues == {ShortBlob, FullBlob, OverBlob, Unserializable}

\* The writer's IndexBlock literal names no height.  The field is the
\* record's own sequence identity, which for a record addressed by its block
\* number is that number.
IndexHeightField(block_offset) == block_offset

\* Types a reader asks for.
Types == {"unit", "bytes"}

\* Identifiers a reader asks for.
ReadIds == 0..MaxReadId

(***************************************************************************)
(* State.                                                                  *)
(*   mem   the host memory                                                 *)
(*   fs    per handle, the EventFilesystem it holds (or none)              *)
(*   call  per handle, the call in progress and its locals                 *)
(*   ret   what the last finished call returned                            *)
(* History, read by the properties only:                                   *)
(*   log   the appends that returned Ok, in order                          *)
(*   snap  whether a stable_store has started, and the value of the last   *)
(*         one if it returned Ok and none has started since                *)
(*   lost  the append a crash interrupted last, if any                     *)
(*   made  the header of the get_or_create that created the store          *)
(*   n     the calls that reached a primitive write (the clock's value);   *)
(*         per handle, whether its engine has yet to append                *)
(***************************************************************************)
VARIABLES mem, fs, call, ret, log, snap, made, lost, n

vars == <<mem, fs, call, ret, log, snap, made, lost, n>>

Handles == {1, 2}
Idle == [pc |-> "idle"]

Init ==
    /\ mem = ZeroMemory
    /\ fs = [h \in Handles |-> NoEngine]
    /\ call = [h \in Handles |-> Idle]
    /\ ret = [op |-> "none"]
    /\ log = <<>>
    /\ snap = [state |-> "none"]
    /\ made = [done |-> FALSE]
    /\ lost = [set |-> FALSE]
    /\ n = [calls |-> 0, fresh |-> [h \in Handles |-> TRUE]]

\* The clock the host supplies: a logical clock, the calls started so far.
Clock == n.calls

NoHandle(h) == fs[h].st = "none" /\ call[h].pc = "idle"
Ready(h) == fs[h].st = "ready" /\ call[h].pc = "idle"

\* A panic unwinds the call and the handle with it.
PanicAt(h, op) ==
    /\ fs' = [fs EXCEPT ![h] = NoEngine]
    /\ call' = [call EXCEPT ![h] = Idle]
    /\ ret' = [op |-> op, h |-> h, res |-> Panicked]

(***************************************************************************)
(* get_or_create and get_file_system.                                      *)
(***************************************************************************)
\* get_or_create over a memory whose magic number is valid: get_file_system.
OpenExisting(h, event_stream_name) ==
    /\ NoHandle(h)
    /\ is_magic_number_valid(mem)
    /\ LET r == get_file_system(mem)
       IN /\ fs' = [fs EXCEPT ![h] = IF r.ok THEN r.val ELSE NoEngine]
          /\ ret' = [op |-> "get_or_create", h |-> h, name |-> event_stream_name,
                     res |-> IF r.ok THEN Ok("opened") ELSE Panicked]
    /\ n' = [n EXCEPT !.fresh[h] = TRUE]
    /\ UNCHANGED <<mem, call, log, snap, made, lost>>

\* get_file_system called directly, whatever the memory holds.
GetFileSystem(h) ==
    /\ NoHandle(h)
    /\ LET r == get_file_system(mem)
       IN /\ fs' = [fs EXCEPT ![h] = IF r.ok THEN r.val ELSE NoEngine]
          /\ ret' = [op |-> "get_file_system", h |-> h,
                     res |-> IF r.ok THEN Ok("opened") ELSE Panicked]
    /\ n' = [n EXCEPT !.fresh[h] = TRUE]
    /\ UNCHANGED <<mem, call, log, snap, made, lost>>

\* get_or_create over a memory whose magic number is not valid, first write.
CreateWriteMagic(h, event_stream_name) ==
    /\ NoHandle(h)
    /\ ~is_magic_number_valid(mem)
    /\ mem' = write_magic_number(mem)
    /\ call' = [call EXCEPT ![h] = [pc |-> "create_height", name |-> event_stream_name]]
    /\ UNCHANGED <<fs, ret, log, snap, made, lost, n>>

CreateWriteHeight(h) ==
    /\ call[h].pc = "create_height"
    /\ mem' = write_block_height(mem, 0)
    /\ call' = [call EXCEPT ![h].pc = "create_header_size"]
    /\ UNCHANGED <<fs, ret, log, snap, made, lost, n>>

\* write_topic_block: the assert, then the size slot.
CreateWriteHeaderSize(h) ==
    /\ call[h].pc = "create_header_size"
    /\ LET topic_block_bytes == SerializeTopicHeaderBlock(NewTopicBlock(call[h].name))
       IN IF Len(topic_block_bytes) <= TOPIC_BLOCK_MAX_SIZE
          THEN /\ mem' = WriteBytes(mem, TOPIC_BLOCK_SIZE_IDX,
                                    ToLeBytes(Len(topic_block_bytes), 8))
               /\ call' = [call EXCEPT ![h].pc = "create_header_data"]
               /\ UNCHANGED <<fs, ret>>
          ELSE /\ PanicAt(h, "get_or_create")
               /\ UNCHANGED mem
    /\ UNCHANGED <<log, snap, made, lost, n>>

\* write_topic_block: the header bytes; get_or_create returns the engine.
CreateWriteHeaderData(h) ==
    /\ call[h].pc = "create_header_data"
    /\ LET topic_block == NewTopicBlock(call[h].name)
       IN /\ mem' = WriteBytes(mem, TOPIC_BLOCK_DATA_START_IDX,
                               SerializeTopicHeaderBlock(topic_block))
          /\ fs' = [fs EXCEPT ![h] = [st |-> "ready", block_offset |-> 0,
                                      topic_header |-> topic_block]]
          /\ made' = [done |-> TRUE, header |-> topic_block]
    /\ call' = [call EXCEPT ![h] = Idle]
    /\ ret' = [op |-> "get_or_create", h |-> h, name |-> call[h].name, res |-> Ok("created")]
    /\ n' = [n EXCEPT !.fresh[h] = TRUE]
    /\ UNCHANGED <<log, snap, lost>>

\* The handle is dropped.
Close(h) ==
    /\ Ready(h)
    /\ fs' = [fs EXCEPT ![h] = NoEngine]
    /\ ret' = [op |-> "drop", h |-> h]
    /\ UNCHANGED <<mem, call, log, snap, made, lost, n>>

(***************************************************************************)
(* write_topic_message: MemoryWriter::write (the index record, the         *)
(* payload, the cursor), then write_block_height.                          *)
(***************************************************************************)
\* The IndexBlock literal with end_idx from whole blocks only, the partial
\* last block forgotten.
NewIndexBlock_WholeBlocks(height_field, data_size, block_offset, timestamp) ==
    [height |-> height_field,
     data_size |-> data_size,
     start_idx |-> block_offset,
     end_idx |-> block_offset + (data_size \div BLOCK_SIZE),
     timestamp |-> timestamp]

\* The IndexBlock MemoryWriter::write builds.
NewIndexBlock(height_field, data_size, block_offset, timestamp) ==
    [height |-> height_field,
     data_size |-> data_size,
     start_idx |-> block_offset,
     end_idx |-> block_offset + get_block_count(data_size),
     timestamp |-> timestamp]

\* bincode::serialize(value) fails: the error is returned.
WriteSerializeFails(h, value) ==
    /\ Ready(h)
    /\ ~Serialize(value).ok
    /\ ret' = [op |-> "write_topic_message", h |-> h, val |-> value,
               res |-> Serialize(value)]
    /\ UNCHANGED <<mem, fs, call, log, snap, made, lost, n>>

\* MemoryWriter::write up to write_idx's primitive write.
\* write_idx persisting the new height with the index record, that is before
\* the payload is written.
write_idx_HeightFirst(m, block_offset, idx) ==
    write_block_height(WriteBytes(m, IdxOffset(block_offset), SerializeIndexBlock(idx)),
                       idx.end_idx)

\* MemoryWriter::write_idx: the index record goes to the slot of the cursor.
write_idx(m, block_offset, idx) ==
    WriteBytes(m, IdxOffset(block_offset), SerializeIndexBlock(idx))

WriteIdx(h, value) ==
    /\ Ready(h)
    /\ n.calls < MaxCalls
    /\ Serialize(value).ok
    /\ LET bytes == Serialize(value).val
           blocks == get_block_count(Len(bytes))
           idx == NewIndexBlock(IndexHeightField(fs[h].block_offset), Len(bytes),
                                fs[h].block_offset, Clock)
           at == IdxOffset(fs[h].block_offset)
       IN /\ mem' = write_idx(mem, fs[h].block_offset, idx)
          /\ IF InMemory(at, INDEX_BLOCK_BYTES)
             THEN /\ call' = [call EXCEPT ![h] =
                                [pc |-> "write_data", val |-> value, bytes |-> bytes,
                                 blocks |-> blocks, idx |-> idx,
                                 pre |-> read_block_height(mem)]]
                  /\ UNCHANGED <<fs, ret>>
             ELSE PanicAt(h, "write_topic_message")
    /\ n' = [n EXCEPT !.calls = @ + 1]
    /\ UNCHANGED <<log, snap, made, lost>>

\* MemoryWriter::write: the payload's primitive write, then the cursor moves.
WriteData(h) ==
    /\ call[h].pc = "write_data"
    /\ LET offset == DataOffset(fs[h].block_offset)
       IN /\ mem' = WriteBytes(mem, offset, call[h].bytes)
          /\ IF InMemory(offset, Len(call[h].bytes))
             THEN /\ fs' = [fs EXCEPT ![h].block_offset = @ + call[h].blocks]
                  /\ call' = [call EXCEPT ![h].pc = "write_height"]
                  /\ UNCHANGED ret
             ELSE PanicAt(h, "write_topic_message")
    /\ UNCHANGED <<log, snap, made, lost, n>>

\* write_block_height(writer.block_offset()), then Ok(idx.start_idx).
WriteHeight(h) ==
    /\ call[h].pc = "write_height"
    /\ mem' = write_block_height(mem, fs[h].block_offset)
    /\ call' = [call EXCEPT ![h] = Idle]
    /\ ret' = [op |-> "write_topic_message", h |-> h, val |-> call[h].val,
               res |-> Ok(call[h].idx.start_idx)]
    /\ log' = Append(log, [id |-> call[h].idx.start_idx, val |-> call[h].val,
                           blocks |-> call[h].blocks,
                           idx |-> call[h].idx, pre |-> call[h].pre,
                           h |-> h, first |-> n.fresh[h]])
    /\ n' = [n EXCEPT !.fresh[h] = FALSE]
    /\ UNCHANGED <<fs, snap, made, lost>>

(***************************************************************************)
(* The snapshot slot.                                                      *)
(***************************************************************************)
\* stable_store returns an error: the value does not encode, or is too large.
StableStoreFails(h, data) ==
    /\ Ready(h)
    /\ LET s == Serialize(data)
       IN /\ IF s.ok THEN StoreTooLarge(Len(s.val)) ELSE TRUE
          /\ ret' = [op |-> "stable_store", h |-> h, val |-> data,
                     res |-> IF s.ok THEN Err("Data is too large") ELSE s]
    /\ UNCHANGED <<mem, fs, call, log, snap, made, lost, n>>

\* stable_store's first primitive write: the size field.
StableStoreSize(h, data) ==
    /\ Ready(h)
    /\ n.calls < MaxCalls
    /\ LET s == Serialize(data)
       IN /\ s.ok
          /\ ~StoreTooLarge(Len(s.val))
          /\ mem' = WriteBytes(mem, FREE_MEMORY_BLOCK_SIZE_IDX, ToLeBytes(Len(s.val), 8))
          /\ call' = [call EXCEPT ![h] = [pc |-> "store_data", val |-> data, bytes |-> s.val]]
    /\ snap' = [state |-> "partial"]
    /\ n' = [n EXCEPT !.calls = @ + 1]
    /\ UNCHANGED <<fs, ret, log, made, lost>>

\* stable_store's second primitive write: the blob; Ok(()).
StableStoreData(h) ==
    /\ call[h].pc = "store_data"
    /\ mem' = WriteBytes(mem, FREE_MEMORY_BLOCK_START_IDX, call[h].bytes)
    /\ call' = [call EXCEPT ![h] = Idle]
    /\ ret' = [op |-> "stable_store", h |-> h, val |-> call[h].val, res |-> Ok("unit")]
    /\ snap' = [state |-> "stored", val |-> call[h].val]
    /\ UNCHANGED <<fs, log, made, lost, n>>

\* stable_restore::<T>(), for each type T a host may ask for.
StableRestore(h) ==
    /\ Ready(h)
    /\ ret' = [op |-> "stable_restore", h |-> h,
               res |-> [ty \in Types |-> stable_restore(mem, ty)]]
    /\ UNCHANGED <<mem, fs, call, log, snap, made, lost, n>>

(***************************************************************************)
(* Reads.                                                                  *)
(***************************************************************************)
\* read_topic_message::<T>(id), for each type T a host may ask for.
ReadTopicMessage(h, id) ==
    /\ Ready(h)
    /\ ret' = [op |-> "read_topic_message", h |-> h, id |-> id,
               res |-> [ty \in Types |-> read_topic_message(mem, id, ty)]]
    /\ UNCHANGED <<mem, fs, call, log, snap, made, lost, n>>

GetTopicHeight(h) ==
    /\ Ready(h)
    /\ ret' = [op |-> "get_topic_height", h |-> h, res |-> Ok(read_block_height(mem))]
    /\ UNCHANGED <<mem, fs, call, log, snap, made, lost, n>>

(***************************************************************************)
(* A crash: every call in progress stops where it is and every handle is   *)
(* lost; the memory keeps what the primitive writes stored.                *)
(***************************************************************************)
Crash ==
    /\ \E h \in Handles : ~NoHandle(h)
    /\ fs' = [h \in Handles |-> NoEngine]
    /\ call' = [h \in Handles |-> Idle]
    /\ ret' = [op |-> "crash", inflight |-> {call[h].pc : h \in Handles} \ {"idle"}]
    /\ lost' = IF \E h \in Handles : call[h].pc \in {"write_data", "write_height"}
               THEN LET h == CHOOSE k \in Handles : call[k].pc \in {"write_data", "write_height"}
                    IN [set |-> TRUE, id |-> call[h].idx.start_idx, pre |-> call[h].pre,
                        nlog |-> Len(log)]
               ELSE lost
    /\ UNCHANGED <<mem, log, snap, made, n>>

(***************************************************************************)
(* One engine handle over the memory: the single-writer use the engine is  *)
(* made for.                                                               *)
(***************************************************************************)
Step(h) ==
    \/ \E name \in Names : OpenExisting(h, name)
    \/ GetFileSystem(h)
    \/ \E name \in Names : CreateWriteMagic(h, name)
    \/ CreateWriteHeight(h)
    \/ CreateWriteHeaderSize(h)
    \/ CreateWriteHeaderData(h)
    \/ Close(h)
    \/ \E v \in AppendValues : WriteSerializeFails(h, v)
    \/ \E v \in AppendValues : WriteIdx(h, v)
    \/ WriteData(h)
    \/ WriteHeight(h)
    \/ \E v \in StoreValues : StableStoreFails(h, v)
    \/ \E v \in StoreValues : StableStoreSize(h, v)
    \/ StableStoreData(h)
    \/ StableRestore(h)
    \/ \E id \in ReadIds : ReadTopicMessage(h, id)
    \/ GetTopicHeight(h)

Next == Step(1) \/ Crash

Spec == Init /\ [][Next]_vars

(***************************************************************************)
(* Range reads, over the stores that creation, appends, crashes and        *)
(* reopens make.                                                           *)
(***************************************************************************)
\* read_topic_messages::<T>(start, take), for each type T a host may ask for.
ReadTopicMessages(h, start, take) ==
    /\ Ready(h)
    /\ ret' = [op |-> "read_topic_messages", h |-> h, start |-> start, take |-> take,
               res |-> [ty \in Types |-> read_range(mem, start, take, ty)]]
    /\ UNCHANGED <<mem, fs, call, log, snap, made, lost, n>>

Takes == 0..MaxTake

RangeNext ==
    \/ \E name \in Names : OpenExisting(1, name)
    \/ \E name \in Names : CreateWriteMagic(1, name)
    \/ CreateWriteHeight(1)
    \/ CreateWriteHeaderSize(1)
    \/ CreateWriteHeaderData(1)
    \/ \E v \in AppendValues : WriteIdx(1, v)
    \/ WriteData(1)
    \/ WriteHeight(1)
    \/ \E id \in ReadIds : ReadTopicMessage(1, id)
    \/ \E start \in ReadIds, take \in Takes : ReadTopicMessages(1, start, take)
    \/ Crash

SpecRange == Init /\ [][RangeNext]_vars

(***************************************************************************)
(* get_block_count on its own, over byte lengths up to MaxDataSize and the *)
(* length the test it_gets_block_count_for_data ends with.                 *)
(***************************************************************************)
DataSizes == 0..MaxDataSize \cup {BLOCK_SIZE * 10 + 50}

GetBlockCount(data_size) ==
    /\ ret' = [op |-> "get_block_count", data_size |-> data_size,
               res |-> get_block_count(data_size)]
    /\ UNCHANGED <<mem, fs, call, log, snap, made, lost, n>>

BlocksNext == \E data_size \in DataSizes : GetBlockCount(data_size)

SpecBlocks == Init /\ [][BlocksNext]_vars

(***************************************************************************)
(* Torn index records: the host's write stores the record's bytes one by   *)
(* one, so a reader of the memory can meet a slot that holds a prefix of   *)
(* the new record over what the slot held before.                          *)
(***************************************************************************)
\* Where the write of an index record can be met half done.
Cuts == 1..(INDEX_BLOCK_BYTES - 1)

\* MemoryWriter::write up to the first cut bytes of the index record.
WriteIdxPrefix(h, value, cut) ==
    /\ Ready(h)
    /\ n.calls < MaxCalls
    /\ Serialize(value).ok
    /\ LET bytes == Serialize(value).val
           blocks == get_block_count(Len(bytes))
           idx == NewIndexBlock(IndexHeightField(fs[h].block_offset), Len(bytes),
                                fs[h].block_offset, Clock)
       IN /\ mem' = WriteBytes(mem, IdxOffset(fs[h].block_offset),
                               SubSeq(SerializeIndexBlock(idx), 1, cut))
          /\ call' = [call EXCEPT ![h] =
                        [pc |-> "write_idx_rest", val |-> value, bytes |-> bytes,
                         blocks |-> blocks, idx |-> idx, cut |-> cut,
                         pre |-> read_block_height(mem)]]
    /\ n' = [n EXCEPT !.calls = @ + 1]
    /\ UNCHANGED <<fs, ret, log, snap, made, lost>>

\* The rest of the index record's bytes.
WriteIdxRest(h) ==
    /\ call[h].pc = "write_idx_rest"
    /\ mem' = WriteBytes(mem, IdxOffset(fs[h].block_offset) + call[h].cut,
                         SubSeq(SerializeIndexBlock(call[h].idx), call[h].cut + 1,
                                INDEX_BLOCK_BYTES))
    /\ call' = [call EXCEPT ![h] =
                  [pc |-> "write_data", val |-> call[h].val, bytes |-> call[h].bytes,
                   blocks |-> call[h].blocks, idx |-> call[h].idx,
                   pre |-> call[h].pre]]
    /\ UNCHANGED <<fs, ret, log, snap, made, lost, n>>

\* MemoryReader::read_idx by a reader of the memory, at any point of the
\* writer's call.
ReadIdx(id) ==
    /\ ~NoHandle(1)
    /\ ret' = [op |-> "read_idx", id |-> id, res |-> read_idx(mem, id)]
    /\ UNCHANGED <<mem, fs, call, log, snap, made, lost, n>>

TornNext ==
    \/ \E name \in Names : CreateWriteMagic(1, name)
    \/ CreateWriteHeight(1)
    \/ CreateWriteHeaderSize(1)
    \/ CreateWriteHeaderData(1)
    \/ \E v \in AppendValues, cut \in Cuts : WriteIdxPrefix(1, v, cut)
    \/ WriteIdxRest(1)
    \/ WriteData(1)
    \/ WriteHeight(1)
    \/ \E id \in ReadIds : ReadIdx(id)

SpecTorn == Init /\ [][TornNext]_vars

(***************************************************************************)
(* Appends over a memory with room for more data blocks than the index     *)
(* zone has slots, as the memory of the tests has: the cursor counts data  *)
(* blocks, and nothing in MemoryWriter compares it with the zone's end.    *)
(***************************************************************************)
\* Appends a host of this memory makes.
MaxZoneCalls == 6

\* The slots the index zone has room for.
IdxSlotCount == (IDX_ZONE_END - IDX_ZONE_IDX) \div IDX_BLOCK_SIZE

\* The memory: room for one data block more than the index zone has slots.
ZONE_MEM_SIZE == IDX_ZONE_END + (IdxSlotCount + 1) * BLOCK_SIZE

ZoneMemory ==
    [p \in 0..((ZONE_MEM_SIZE + PAGE - 1) \div PAGE - 1) |-> [i \in 0..(PAGE - 1) |-> 0]]

\* Whether [off, off+len) lies in this memory.
ZoneInMemory(off, len) ==
    off <= ZONE_MEM_SIZE /\ len <= ZONE_MEM_SIZE /\ off + len <= ZONE_MEM_SIZE

\* write(off, bs) over this memory.
ZoneWriteBytes(m, off, bs) ==
    LET end == IF off + Len(bs) <= ZONE_MEM_SIZE THEN off + Len(bs) ELSE ZONE_MEM_SIZE
    IN [p \in DOMAIN m |->
          IF (p + 1) * PAGE <= off \/ p * PAGE >= end THEN m[p]
          ELSE [i \in 0..(PAGE - 1) |->
                  LET a == p * PAGE + i
                  IN IF a >= off /\ a < end THEN bs[a - off + 1] ELSE m[p][i]]]

ZoneInit ==
    /\ mem = ZoneMemory
    /\ fs = [h \in Handles |-> NoEngine]
    /\ call = [h \in Handles |-> Idle]
    /\ ret = [op |-> "none"]
    /\ log = <<>>
    /\ snap = [state |-> "none"]
    /\ made = [done |-> FALSE]
    /\ lost = [set |-> FALSE]
    /\ n = [calls |-> 0, fresh |-> [h \in Handles |-> TRUE]]

\* Appended values: one block, two blocks.
ZoneValues == {SmallValue, BigValue}

\* MemoryWriter::write up to write_idx's primitive write.
ZoneWriteIdx(h, value) ==
    /\ Ready(h)
    /\ n.calls < MaxZoneCalls
    /\ LET bytes == Serialize(value).val
           blocks == get_block_count(Len(bytes))
           idx == NewIndexBlock(IndexHeightField(fs[h].block_offset), Len(bytes),
                                fs[h].block_offset, Clock)
           at == IdxOffset(fs[h].block_offset)
       IN /\ mem' = ZoneWriteBytes(mem, at, SerializeIndexBlock(idx))
          /\ IF ZoneInMemory(at, INDEX_BLOCK_BYTES)
             THEN /\ call' = [call EXCEPT ![h] =
                                [pc |-> "write_data", val |-> value, bytes |-> bytes,
                                 blocks |-> blocks, idx |-> idx,
                                 pre |-> read_block_height(mem)]]
                  /\ UNCHANGED <<fs, ret>>
             ELSE PanicAt(h, "write_topic_message")
    /\ n' = [n EXCEPT !.calls = @ + 1]
    /\ UNCHANGED <<log, snap, made, lost>>

\* MemoryWriter::write: the payload's primitive write, then the cursor moves.
ZoneWriteData(h) ==
    /\ call[h].pc = "write_data"
    /\ LET offset == DataOffset(fs[h].block_offset)
       IN /\ mem' = ZoneWriteBytes(mem, offset, call[h].bytes)
          /\ IF ZoneInMemory(offset, Len(call[h].bytes))
             THEN /\ fs' = [fs EXCEPT ![h].block_offset = @ + call[h].blocks]
                  /\ call' = [call EXCEPT ![h].pc = "write_height"]
                  /\ UNCHANGED ret
             ELSE PanicAt(h, "write_topic_message")
    /\ UNCHANGED <<log, snap, made, lost, n>>

ZoneNext ==
    \/ OpenExisting(1, <<116>>)
    \/ CreateWriteMagic(1, <<116>>)
    \/ CreateWriteHeight(1)
    \/ CreateWriteHeaderSize(1)
    \/ CreateWriteHeaderData(1)
    \/ \E v \in ZoneValues : ZoneWriteIdx(1, v)
    \/ ZoneWriteData(1)
    \/ WriteHeight(1)

SpecZone == ZoneInit /\ [][ZoneNext]_vars

(***************************************************************************)
(* Two engine handles over one memory, their calls serialized by the host: *)
(* a call through one handle begins only when no call through the other is *)
(* in progress.  Each handle holds its own MemoryWriter, whose cursor is   *)
(* the height get_file_system read when the handle was opened.             *)
(***************************************************************************)
\* No call is in progress through another handle.
Serialized(h) == \A k \in Handles \ {h} : call[k].pc = "idle"

\* Appended values: one block, two blocks.
TwoValues == {SmallValue, BigValue}

TwoStep(h) ==
    \/ Serialized(h) /\ OpenExisting(h, <<116>>)
    \/ Serialized(h) /\ GetFileSystem(h)
    \/ Serialized(h) /\ CreateWriteMagic(h, <<116>>)
    \/ CreateWriteHeight(h)
    \/ CreateWriteHeaderSize(h)
    \/ CreateWriteHeaderData(h)
    \/ Serialized(h) /\ Close(h)
    \/ Serialized(h) /\ \E v \in TwoValues : WriteIdx(h, v)
    \/ WriteData(h)
    \/ WriteHeight(h)
    \/ Serialized(h) /\ GetTopicHeight(h)

TwoNext == \E h \in Handles : TwoStep(h)

SpecTwo == Init /\ [][TwoNext]_vars

(***************************************************************************)
(* Definitions the properties share.                                       *)
(***************************************************************************)
\* The last call was a get_or_create or get_file_system that opened a store,
\* and the engine it returned has not been used yet.
Reopened ==
    /\ ret.op \in {"get_or_create", "get_file_system"}
    /\ ret.res = Ok("opened")
    /\ Ready(ret.h)

\* Blocks the appends of the log consumed.
RECURSIVE SumBlocks(_)
SumBlocks(l) == IF l = <<>> THEN 0 ELSE l[1].blocks + SumBlocks(Tail(l))

\* The index record and the payload of an append are in the memory as written.
Intact(m, r) ==
    /\ ReadBytes(m, IdxOffset(r.idx.start_idx), INDEX_BLOCK_BYTES) = SerializeIndexBlock(r.idx)
    /\ ReadBytes(m, DataOffset(r.idx.start_idx), r.idx.data_size) = Serialize(r.val).val

\* What a host reads back for a logged append: read_topic_message at its
\* identifier, for the type of its value.
ReadBack(m, e) == read_topic_message(m, e.id, e.val.kind)

\* The append before log[i] made through the same handle.
PrevOn(i) == CHOOSE j \in 1..(i - 1) :
                /\ log[j].h = log[i].h
                /\ \A k \in (j + 1)..(i - 1) : log[k].h # log[i].h

\* The appends whose index record and payload are both written: the ones that
\* returned, and the one in progress that has only its height left to write.
FullyWritten ==
    {[idx |-> log[i].idx, val |-> log[i].val] : i \in DOMAIN log}
        \cup {[idx |-> call[h].idx, val |-> call[h].val] :
                h \in {k \in Handles : call[k].pc = "write_height"}}

(***************************************************************************)
(* C1. Round trip: a read_topic_message at an identifier an append         *)
(* returned gives the value appended, also after later appends.            *)
(* The read path decodes an IndexBlock from a 32-byte buffer, so this      *)
(* fails.                                                                  *)
(***************************************************************************)
C1_RoundTrip ==
    ret.op = "read_topic_message" =>
        \A i \in DOMAIN log :
            (log[i].id = ret.id /\ \A j \in (i + 1)..Len(log) : log[j].id # ret.id)
                => ret.res[log[i].val.kind] = Ok(log[i].val)

(***************************************************************************)
(* C2. Identifiers of consecutive successful appends on one engine.        *)
(* As claimed: the second is strictly greater than the first, and each     *)
(* equals get_topic_height() before the call.                              *)
(***************************************************************************)
C2_StrictlyIncreasing ==
    \A i \in DOMAIN log :
        /\ log[i].id = log[i].pre
        /\ ~log[i].first => log[i].id > log[PrevOn(i)].id

(***************************************************************************)
(* C2 as amended: each identifier equals get_topic_height() before the     *)
(* call, and the second of two consecutive appends returns the first's     *)
(* identifier plus the first's block count: strictly greater when the      *)
(* first's encoded payload has at least one byte, equal when it has none.  *)
(***************************************************************************)
C2_Monotonic ==
    \A i \in DOMAIN log :
        /\ log[i].id = log[i].pre
        /\ ~log[i].first =>
              LET p == log[PrevOn(i)]
              IN /\ log[i].id = p.id + p.blocks
                 /\ log[i].id >= p.id
                 /\ (p.idx.data_size > 0 => log[i].id > p.id)
                 /\ (p.idx.data_size = 0 => log[i].id = p.id)

\* Two consecutive appends on one engine, the first of an empty encoding.
C2_Witness ==
    \E i \in DOMAIN log :
        /\ ~log[i].first
        /\ log[PrevOn(i)].val = Unit
        /\ log[i].id = log[PrevOn(i)].id

(***************************************************************************)
(* C3. Height persistence: an engine reopened after N successful appends   *)
(* has get_topic_height() equal to the blocks they consumed, a cursor      *)
(* equal to it, and reads every earlier identifier back.                   *)
(* Height and cursor are as claimed (HeightPersists); the reads fail.      *)
(***************************************************************************)
C3_HeightPersistence ==
    Reopened =>
        /\ read_block_height(mem) = SumBlocks(log)
        /\ fs[ret.h].block_offset = read_block_height(mem)
        /\ \A i \in DOMAIN log :
              (\A j \in (i + 1)..Len(log) : log[j].id # log[i].id)
                  => ReadBack(mem, log[i]) = Ok(log[i].val)

\* The part of C3 that is about the height and the cursor.
HeightPersists ==
    Reopened =>
        /\ read_block_height(mem) = SumBlocks(log)
        /\ fs[ret.h].block_offset = read_block_height(mem)

(***************************************************************************)
(* C4. Write ordering: at every point, between any two primitive writes    *)
(* too, every block number below the persisted height belongs to an        *)
(* append whose index record and payload are both written and in place.    *)
(***************************************************************************)
C4_HeightNeverOverstates ==
    \A b \in 0..(read_block_height(mem) - 1) :
        \E r \in FullyWritten :
            /\ r.idx.start_idx <= b
            /\ b < r.idx.end_idx
            /\ Intact(mem, r)

\* Between the payload write and the height write of a second append, the
\* first append's blocks being below the persisted height.
C4_Witness ==
    /\ call[1].pc = "write_height"
    /\ Len(log) = 1
    /\ read_block_height(mem) = 2
    /\ fs[1].block_offset > read_block_height(mem)

(***************************************************************************)
(* C5. Crash recovery: after a crash inside an append and a reopen, the    *)
(* appends that had returned read back, the height is the one before the   *)
(* interrupted append, and the next append returns the identifier the      *)
(* interrupted one would have returned, the earlier records untouched.     *)
(* Height, identifier and records are as claimed (CrashLosesOnlyInFlight); *)
(* the reads fail.                                                         *)
(***************************************************************************)
C5_CrashRecovery ==
    (lost.set /\ Ready(1)) =>
        /\ \A i \in 1..lost.nlog : Intact(mem, log[i]) \/ log[i].blocks = 0
        /\ \A i \in 1..lost.nlog : ReadBack(mem, log[i]) = Ok(log[i].val)
        /\ Len(log) = lost.nlog => read_block_height(mem) = lost.pre
        /\ Len(log) > lost.nlog => log[lost.nlog + 1].id = lost.id

\* The part of C5 that is not about reading back.
CrashLosesOnlyInFlight ==
    (lost.set /\ Ready(1)) =>
        /\ \A i \in 1..lost.nlog : Intact(mem, log[i]) \/ log[i].blocks = 0
        /\ Len(log) = lost.nlog => read_block_height(mem) = lost.pre
        /\ Len(log) > lost.nlog => log[lost.nlog + 1].id = lost.id

(***************************************************************************)
(* C6. Fresh-store bootstrap: get_or_create over a zeroed memory writes    *)
(* the magic number at offset 0, a height of 0 and a header with the name  *)
(* supplied; a reopen straight after it gets the same header.              *)
(***************************************************************************)
C6_FreshBootstrap ==
    /\ (ret.op = "get_or_create" /\ ret.res = Ok("created") /\ Ready(ret.h)) =>
          /\ ReadU64(mem, 0) = TOPIC_HEADER_MAGIC
          /\ read_block_height(mem) = 0
          /\ read_topic_block(mem).ok
          /\ read_topic_block(mem).val.event_stream_name = ret.name
          /\ read_topic_block(mem).val = fs[ret.h].topic_header
    /\ (Reopened /\ made.done /\ n.calls = 0) =>
          /\ fs[ret.h].topic_header = made.header
          /\ fs[ret.h].block_offset = 0

\* A store reopened straight after its creation.
C6_Witness ==
    /\ Reopened
    /\ ret.op = "get_or_create"
    /\ made.done
    /\ n.calls = 0
    /\ fs[1].topic_header.event_stream_name = <<116>>

(***************************************************************************)
(* C7. Opening an existing store writes nothing: with a valid magic        *)
(* number get_or_create leaves the memory as it is, takes the cursor from  *)
(* the persisted height and the header from the memory, whatever name it   *)
(* is given; and once a store is created no step changes its persisted     *)
(* header or its magic number.                                             *)
(***************************************************************************)
C7_OpenIsReadOnly ==
    [][/\ (NoHandle(1) /\ is_magic_number_valid(mem) /\ ret' # ret
               /\ ret'.op = "get_or_create") =>
             /\ mem' = mem
             /\ ret'.res.ok =>
                   /\ fs'[1].block_offset = read_block_height(mem)
                   /\ fs'[1].topic_header = read_topic_block(mem).val
       /\ made'.done =>
             /\ read_topic_block(mem') = Ok(made'.header)
             /\ is_magic_number_valid(mem')]_vars

\* A store with an append and a snapshot, reopened under another name.
C7_Witness ==
    /\ Reopened
    /\ ret.op = "get_or_create"
    /\ made.done
    /\ ret.name # fs[1].topic_header.event_stream_name
    /\ fs[1].block_offset > 0
    /\ snap.state = "stored"

(***************************************************************************)
(* C8. Oversize rejection on append: a write_topic_message whose payload   *)
(* is larger than the maximum (here: than the room the memory has at the   *)
(* cursor) makes no primitive write and leaves height and cursor as they   *)
(* are, and an append that returns an error leaves the store unchanged.    *)
(* MemoryWriter::write has no size test: the index record is written.      *)
(***************************************************************************)
C8_OversizeRejected ==
    [][/\ (Ready(1) /\ call'[1].pc = "write_data"
               /\ ~InMemory(DataOffset(fs[1].block_offset), Len(call'[1].bytes))) =>
             mem' = mem
       /\ (ret' # ret /\ ret'.op = "write_topic_message" /\ ~ret'.res.ok
               /\ ~IsPanic(ret'.res)) =>
             /\ mem' = mem
             /\ fs' = fs]_vars

\* The part of C8 about the errors write_topic_message does return.
AppendErrorChangesNothing ==
    [][(ret' # ret /\ ret'.op = "write_topic_message" /\ ~ret'.res.ok
            /\ ~IsPanic(ret'.res)) =>
          /\ mem' = mem
          /\ fs' = fs]_vars

(***************************************************************************)
(* C9. Snapshot oversize rejection: stable_store returns an error and      *)
(* writes nothing when the encoded blob is longer than                     *)
(* FREE_MEMORY_BLOCK_SIZE, and succeeds when it is not, the exact size     *)
(* included.                                                               *)
(***************************************************************************)
C9_StoreSizeCheck ==
    [][(ret' # ret /\ ret'.op = "stable_store") =>
          LET s == Serialize(ret'.val)
          IN /\ s.ok => (ret'.res.ok <=> Len(s.val) <= FREE_MEMORY_BLOCK_SIZE)
             /\ ~ret'.res.ok => mem' = mem]_vars

\* A blob one byte too long refused after a blob of exactly the slot's size
\* was stored.
C9_Witness ==
    /\ ret.op = "stable_store"
    /\ ret.val = OverBlob
    /\ ~ret.res.ok
    /\ snap.state = "stored"
    /\ snap.val = FullBlob
    /\ ReadU64(mem, FREE_MEMORY_BLOCK_SIZE_IDX) = FREE_MEMORY_BLOCK_SIZE

(***************************************************************************)
(* C10. The snapshot slot.  As claimed: stable_restore fails before any    *)
(* stable_store, and after a stable_store that returned Ok it returns the  *)
(* value stored last.                                                      *)
(***************************************************************************)
C10_SnapshotSlot ==
    ret.op = "stable_restore" =>
        /\ snap.state = "none" => \A ty \in Types : ~ret.res[ty].ok
        /\ snap.state = "stored" => ret.res[snap.val.kind] = Ok(snap.val)

(***************************************************************************)
(* C10 as amended: before any stable_store, stable_restore::<T> fails for  *)
(* every T whose encoding has at least one byte (it returns the value of a *)
(* T that encodes to no bytes); after a stable_store that returned Ok it   *)
(* returns the value stored last, whatever the lengths of the values       *)
(* stored before.                                                          *)
(***************************************************************************)
C10_SnapshotSlotSized ==
    ret.op = "stable_restore" =>
        /\ snap.state = "none" =>
              /\ ~ret.res["bytes"].ok
              /\ ret.res["unit"] = Ok(Unit)
        /\ snap.state = "stored" => ret.res[snap.val.kind] = Ok(snap.val)

\* A restore of a short blob stored over a longer one, whose bytes still lie
\* in the slot past the short one's.
C10_Witness ==
    /\ ret.op = "stable_restore"
    /\ snap.state = "stored"
    /\ snap.val = ShortBlob
    /\ ByteAt(mem, FREE_MEMORY_BLOCK_START_IDX + 9) = 2

(***************************************************************************)
(* Index records as they lie in the memory, decoded whole.                 *)
(***************************************************************************)
\* ceil(n / d), computed apart from get_block_count.
Ceil(len, d) == (len + d - 1) \div d

\* Slots the index zone has room for.
IdxSlots == 0..(((IDX_ZONE_END - IDX_ZONE_IDX) \div IDX_BLOCK_SIZE) - 1)

\* The record the 40 bytes of slot s decode to.
SlotRecord(m, s) ==
    DeserializeIndexBlock(ReadBytes(m, IdxOffset(s), INDEX_BLOCK_BYTES)).val

\* A slot no write_idx has touched.
SlotIsZero(m, s) == ReadBytes(m, IdxOffset(s), INDEX_BLOCK_BYTES) = Fill(INDEX_BLOCK_BYTES, 0)

(***************************************************************************)
(* C11. Index-record invariant: every index record has                     *)
(* end_idx - start_idx = ceil(data_size / BLOCK_SIZE), the first record    *)
(* starts at block 0, and each record starts where the record appended     *)
(* before it ends.  Stated of the records the appends returned and of the  *)
(* records in the memory's index slots.                                    *)
(***************************************************************************)
C11_IndexRecordInvariant ==
    /\ \A i \in DOMAIN log :
          log[i].idx.end_idx - log[i].idx.start_idx
              = Ceil(log[i].idx.data_size, BLOCK_SIZE)
    /\ log # <<>> => log[1].idx.start_idx = 0
    /\ \A i \in 1..(Len(log) - 1) : log[i + 1].idx.start_idx = log[i].idx.end_idx
    /\ \A s \in IdxSlots :
          LET r == SlotRecord(mem, s)
          IN /\ r.end_idx - r.start_idx = Ceil(r.data_size, BLOCK_SIZE)
             /\ SlotIsZero(mem, s) \/ r.start_idx = s
    /\ \A i \in DOMAIN log :
          log[i].blocks > 0 => SlotRecord(mem, log[i].idx.start_idx) = log[i].idx

\* A two-block record followed by a one-block record.
C11_Witness ==
    /\ Len(log) = 2
    /\ log[1].idx.start_idx = 0
    /\ log[1].idx.end_idx = 2
    /\ log[2].idx.start_idx = 2
    /\ log[2].idx.end_idx = 3
    /\ SlotRecord(mem, 2) = log[2].idx

(***************************************************************************)
(* C12. Reading an identifier no append returned fails:                    *)
(* read_topic_message(id) returns an error, for every type asked for,      *)
(* when slot id was never written and lies at or above the height, or when *)
(* it lies inside a message of several blocks.                             *)
(***************************************************************************)
\* ret holds a read made on the memory as it is now.
ReadJustMade == ret.op = "read_topic_message" /\ Ready(ret.h)

\* Slot id was never written and is at or above the height.
NeverWritten(id) == SlotIsZero(mem, id) /\ id >= read_block_height(mem)

\* Slot id is past the first block of a message of several blocks.
InteriorSlot(id) ==
    \E i \in DOMAIN log : log[i].idx.start_idx < id /\ id < log[i].idx.end_idx

C12_UnknownIdFails ==
    (ReadJustMade /\ (NeverWritten(ret.id) \/ InteriorSlot(ret.id))) =>
        \A ty \in Types : ~ret.res[ty].ok /\ ~IsPanic(ret.res[ty])

\* A read at the second block of a two-block message, the slot above the
\* message being still unwritten.
C12_Witness ==
    /\ ReadJustMade
    /\ ret.id = 1
    /\ InteriorSlot(1)
    /\ NeverWritten(2)

(***************************************************************************)
(* C13. Range read: read_topic_messages(start, take) returns, in order,    *)
(* the values read_topic_message gives at start, start + 1, ...,           *)
(* start + take - 1 when all of these succeed, and otherwise the error of  *)
(* the first of them that fails, with no partial result.                   *)
(***************************************************************************)
C13_RangeRead ==
    (ret.op = "read_topic_messages" /\ Ready(ret.h)) =>
        \A ty \in Types :
            LET one(k) == read_topic_message(mem, ret.start + k, ty)
                failing == {k \in 0..(ret.take - 1) : ~one(k).ok}
            IN IF failing = {}
               THEN ret.res[ty] = Ok([k \in 1..ret.take |-> one(k - 1).val])
               ELSE \E k \in failing :
                       /\ \A j \in failing : k <= j
                       /\ ret.res[ty] = one(k)

\* A range of two read from identifier 0 after an append returned 0: the
\* result is the error of the read at 0.
C13_Witness ==
    /\ ret.op = "read_topic_messages"
    /\ Ready(ret.h)
    /\ ret.start = 0
    /\ ret.take = 2
    /\ Len(log) >= 1
    /\ log[1].id = 0
    /\ \A ty \in Types : ~ret.res[ty].ok /\ ret.res[ty] = read_topic_message(mem, 0, ty)

(***************************************************************************)
(* C14. Block accounting: get_block_count(n) is ceil(n / 512), the least   *)
(* number of 512-byte blocks that hold n bytes; it is 0 for 0, 1 for 1 and *)
(* for 512, 2 for 513 and 11 for 5170.                                     *)
(***************************************************************************)
C14_BlockAccounting ==
    ret.op = "get_block_count" =>
        /\ ret.res * 512 >= ret.data_size
        /\ ret.res = 0 \/ (ret.res - 1) * 512 < ret.data_size
        /\ ret.res = Ceil(ret.data_size, BLOCK_SIZE)
        /\ ret.data_size = 0 => ret.res = 0
        /\ ret.data_size = 1 => ret.res = 1
        /\ ret.data_size = 512 => ret.res = 1
        /\ ret.data_size = 513 => ret.res = 2
        /\ ret.data_size = 5170 => ret.res = 11

\* The count for 5170 bytes.
C14_Witness ==
    /\ ret.op = "get_block_count"
    /\ ret.data_size = 5170
    /\ ret.res = 11

(***************************************************************************)
(* C15. Torn index reads are detected: read_idx at a slot whose record is  *)
(* half written, a prefix of the new record lying over what the slot held  *)
(* before, returns a decode failure and no record.                         *)
(***************************************************************************)
\* ret holds a read_idx of the slot the writer is half way through.
TornRead ==
    /\ call[1].pc = "write_idx_rest"
    /\ ret.op = "read_idx"
    /\ ret.id = call[1].idx.start_idx

C15_TornReadFails == TornRead => ~ret.res.ok /\ ~IsPanic(ret.res)

\* A read of a slot that holds the first 16 bytes of a new record over the
\* record of an earlier append of no bytes, which differs from it.
C15_Witness ==
    /\ TornRead
    /\ call[1].cut = 16
    /\ Len(log) = 1
    /\ log[1].idx.start_idx = call[1].idx.start_idx
    /\ call[1].idx.data_size > 0
    /\ SlotRecord(mem, ret.id) # call[1].idx
    /\ SlotRecord(mem, ret.id) # log[1].idx

(***************************************************************************)
(* C16. Index-record codec agreement: for a slot write_idx has written,    *)
(* read_idx reads the bytes write_idx wrote, the 40 bytes of five u64      *)
(* fields at IDX_ZONE_IDX + n * IDX_BLOCK_SIZE, and returns the record     *)
(* written.  read_idx reads 32 bytes and returns an error.                 *)
(***************************************************************************)
C16_CodecAgreement ==
    call[1].pc \in {"write_data", "write_height"} =>
        /\ ReadBytes(mem, IdxOffset(call[1].idx.start_idx), INDEX_BLOCK_BYTES)
              = SerializeIndexBlock(call[1].idx)
        /\ read_idx(mem, call[1].idx.start_idx) = Ok(call[1].idx)

\* The part of C16 about the writer: the slot holds the record's 40 bytes,
\* which decode to the record.
IndexRecordWrittenWhole ==
    call[1].pc \in {"write_data", "write_height"} =>
        /\ ReadBytes(mem, IdxOffset(call[1].idx.start_idx), INDEX_BLOCK_BYTES)
              = SerializeIndexBlock(call[1].idx)
        /\ SlotRecord(mem, call[1].idx.start_idx) = call[1].idx

(***************************************************************************)
(* C17. Zero-length boundary: an append whose encoded payload has no bytes *)
(* consumes no block.  Its index record, with data_size 0 and end_idx =    *)
(* start_idx, goes to the slot of the cursor; it returns the height as     *)
(* identifier; the cursor and the persisted height stay as they were.      *)
(***************************************************************************)
C17_ZeroLengthAppend ==
    /\ (call[1].pc \in {"write_data", "write_height"} /\ Len(call[1].bytes) = 0) =>
          /\ call[1].idx.data_size = 0
          /\ call[1].idx.end_idx = call[1].idx.start_idx
          /\ call[1].idx.start_idx = call[1].pre
          /\ SlotRecord(mem, call[1].pre) = call[1].idx
          /\ fs[1].block_offset = call[1].pre
          /\ read_block_height(mem) = call[1].pre
    /\ (ret.op = "write_topic_message" /\ ret.res.ok /\ Ready(ret.h)
            /\ Len(Serialize(ret.val).val) = 0) =>
          LET e == log[Len(log)]
          IN /\ e.val = ret.val
             /\ e.idx.data_size = 0
             /\ e.idx.end_idx = e.idx.start_idx
             /\ ret.res = Ok(e.pre)
             /\ SlotRecord(mem, e.pre) = e.idx
             /\ fs[ret.h].block_offset = e.pre
             /\ read_block_height(mem) = e.pre

\* An append of no bytes that returned 1, after an append of one block.
C17_Witness ==
    /\ ret.op = "write_topic_message"
    /\ ret.res = Ok(1)
    /\ ret.val = Unit
    /\ Ready(ret.h)
    /\ Len(log) = 2
    /\ log[1].blocks = 1
    /\ read_block_height(mem) = 1

(***************************************************************************)
(* C18. Zone independence: the steps of an append change bytes only in the *)
(* index slot of the cursor the call began with, in the payload's bytes    *)
(* from that cursor's data block on, and in the height slot; the magic     *)
(* number, the header record and the snapshot slot stay as they are.  The  *)
(* steps of a stable_store change bytes only in the snapshot slot's size   *)
(* field and blob; the height, the header, the index zone and the data     *)
(* zone stay as they are.                                                  *)
(***************************************************************************)
\* The addresses at which two memories differ.
Changed(m1, m2) ==
    UNION {{p * PAGE + i : i \in {j \in 0..(PAGE - 1) : m1[p][j] # m2[p][j]}} :
             p \in {q \in DOMAIN m1 : m1[q] # m2[q]}}

\* The addresses off .. off + len - 1.
Range(off, len) == off..(off + len - 1)

\* The call in progress before or after a step.
CallOf(c1, c2) == IF c2.pc # "idle" THEN c2 ELSE c1

C18_ZoneIndependence ==
    [][LET c == CallOf(call[1], call'[1])
           d == Changed(mem, mem')
       IN /\ c.pc \in {"write_data", "write_height"} =>
                /\ d \subseteq
                      Range(IDX_ZONE_IDX + c.idx.start_idx * IDX_BLOCK_SIZE, 40)
                        \cup Range(IDX_ZONE_END + c.idx.start_idx * BLOCK_SIZE, Len(c.bytes))
                        \cup Range(TOPIC_HEIGHT_IDX, 8)
                /\ d \cap Range(MAGIC_NUMBER_IDX, 8) = {}
                /\ d \cap Range(TOPIC_BLOCK_SIZE_IDX, 8 + TOPIC_BLOCK_MAX_SIZE) = {}
                /\ d \cap Range(FREE_MEMORY_BLOCK_SIZE_IDX, 8 + FREE_MEMORY_BLOCK_SIZE) = {}
          /\ c.pc = "store_data" =>
                /\ d \subseteq
                      Range(FREE_MEMORY_BLOCK_SIZE_IDX, 8)
                        \cup Range(FREE_MEMORY_BLOCK_START_IDX, Len(c.bytes))
                /\ d \cap Range(MAGIC_NUMBER_IDX, FREE_MEMORY_BLOCK_SIZE_IDX) = {}
                /\ d \cap Range(IDX_ZONE_IDX, MEM_SIZE - IDX_ZONE_IDX) = {}]_vars

\* Two records and a snapshot in the memory, each of the three zones and the
\* height slot having been written after the header.
C18_Witness ==
    /\ Ready(1)
    /\ Len(log) >= 1
    /\ log[1].blocks = 2
    /\ snap.state = "stored"
    /\ snap.val = FullBlob
    /\ read_block_height(mem) = 2
    /\ read_topic_block(mem) = Ok(made.header)

(***************************************************************************)
(* C19. Initialization is crash-safe: after a crash between the primitive  *)
(* writes of a first get_or_create, the next get_or_create over the memory *)
(* does not panic and returns an engine with height 0 and a header that    *)
(* decodes and carries a stream name.  get_or_create writes the magic      *)
(* number first, so the next call takes the memory for a store and reads a *)
(* header that is not there.                                               *)
(***************************************************************************)
\* Where a first get_or_create can be, its first primitive write made.
CreatePcs == {"create_height", "create_header_size", "create_header_data"}

C19_InitCrashSafe ==
    [][(ret.op = "crash" /\ ret.inflight \cap CreatePcs # {}
            /\ ret'.op = "get_or_create") =>
          /\ ret'.res.ok
          /\ fs'[1].st = "ready"
          /\ fs'[1].block_offset = 0
          /\ read_block_height(mem') = 0
          /\ read_topic_block(mem').ok
          /\ fs'[1].topic_header.event_stream_name # <<>>]_vars

\* What the code does keep: a get_or_create after such a crash writes
\* nothing, and the engine it returns, if it returns, has height 0.
InitCrashLeavesMagic ==
    [][(ret.op = "crash" /\ ret.inflight \cap CreatePcs # {}
            /\ ret'.op = "get_or_create") =>
          /\ is_magic_number_valid(mem)
          /\ mem' = mem
          /\ ret'.res.ok => fs'[1].block_offset = 0]_vars

(***************************************************************************)
(* C20. Zone bounds: for every reachable cursor, the index record an       *)
(* append writes lies inside the index zone [IDX_ZONE_IDX, IDX_ZONE_END)   *)
(* and the payload lies at or above IDX_ZONE_END; no index-record write    *)
(* changes a byte of the data zone and no payload write changes a byte of  *)
(* the index zone.  write_idx never compares the cursor with the zone's    *)
(* end: once the cursor has reached the number of slots, the index record  *)
(* goes over the first payloads.                                           *)
(***************************************************************************)
IndexZone == Range(IDX_ZONE_IDX, IDX_ZONE_END - IDX_ZONE_IDX)
DataZone == Range(IDX_ZONE_END, ZONE_MEM_SIZE - IDX_ZONE_END)

\* A step that is write_idx's primitive write, the payload's.
IndexWriteStep == call[1].pc = "idle" /\ call'[1].pc = "write_data"
PayloadWriteStep == call[1].pc = "write_data"

C20_ZoneBounds ==
    [][/\ IndexWriteStep =>
             /\ Range(IdxOffset(fs[1].block_offset), INDEX_BLOCK_BYTES) \subseteq IndexZone
             /\ Changed(mem, mem') \cap DataZone = {}
       /\ PayloadWriteStep =>
             /\ DataOffset(fs[1].block_offset) >= IDX_ZONE_END
             /\ Changed(mem, mem') \cap IndexZone = {}]_vars

\* What the code does keep: a payload is written at or above IDX_ZONE_END and
\* changes no byte of the index zone, and an index record written while the
\* cursor is below the number of slots stays inside the index zone.
ZoneBoundsBelowSlotCount ==
    [][/\ (IndexWriteStep /\ fs[1].block_offset < IdxSlotCount) =>
             /\ Range(IdxOffset(fs[1].block_offset), INDEX_BLOCK_BYTES) \subseteq IndexZone
             /\ Changed(mem, mem') \cap DataZone = {}
       /\ PayloadWriteStep =>
             /\ DataOffset(fs[1].block_offset) >= IDX_ZONE_END
             /\ Changed(mem, mem') \cap IndexZone = {}]_vars


(***************************************************************************)
(* C21. Externally serialized appends through two engine handles: when two *)
(* handles are open over the same memory and their write_topic_message     *)
(* calls never overlap, no two appends return the same identifier, no      *)
(* append changes the index record or the payload of an earlier completed  *)
(* append, and the persisted height never decreases.  Each handle appends  *)
(* at the cursor it read when it was opened, whatever the other handle has *)
(* appended since.                                                         *)
(***************************************************************************)
\* The bytes of a completed append: its index record and its payload.
BytesOf(e) ==
    Range(IdxOffset(e.id), INDEX_BLOCK_BYTES) \cup Range(DataOffset(e.id), e.idx.data_size)

\* The completed appends.
Completed == {log[i] : i \in 1..Len(log)}

C21_SerializedAppends ==
    [][/\ \A i, j \in 1..Len(log') : i # j => log'[i].id # log'[j].id
       /\ \A e \in Completed : Changed(mem, mem') \cap BytesOf(e) = {}
       /\ read_block_height(mem') >= read_block_height(mem)]_vars

\* What the code does keep: as long as every append so far, and the one in
\* progress, began with its handle's cursor equal to the persisted height,
\* identifiers are distinct, completed appends stay as written and the
\* height does not decrease.
InSync(c) == c.pc \in {"write_data", "write_height"} => c.idx.start_idx = c.pre

SerializedAppendsInSync ==
    [][((\A e \in Completed : e.id = e.pre)
           /\ \A h \in Handles : InSync(call[h]) /\ InSync(call'[h])
           /\ \A i \in 1..Len(log') : log'[i].id = log'[i].pre) =>
          /\ \A i, j \in 1..Len(log') : i # j => log'[i].id # log'[j].id
          /\ \A e \in Completed : Changed(mem, mem') \cap BytesOf(e) = {}
          /\ read_block_height(mem') >= read_block_height(mem)]_vars

====
